---- MODULE Spec2Model ----
(***************************************************************************)
(* Model of jorbDehmel/physicsScripts: the guarded filter pipeline of      *)
(* filterer.do_file and the control-first condition loop of filterer.main. *)
(*                                                                         *)
(* Cells are small integers and all statistics (mean, population std,      *)
(* linearly interpolated percentiles) are compared exactly, by cross       *)
(* multiplication, so no bound is rounded.  A scalar that leaves do_file   *)
(* (a mean, a std, a threshold) is a record standing for the real number   *)
(* (a + k*sqrt(d)) / n, or for NaN, or for Python's None.                  *)
(***************************************************************************)
EXTENDS Integers, Sequences, FiniteSets, TLC

\* ------------------------------------------------------------------------
\* Bounds of the model
\* ------------------------------------------------------------------------
MaxFill == 5
MaxVar == 2
MaxChanges == 1

\* ------------------------------------------------------------------------
\* Program constants
\* ------------------------------------------------------------------------
col_names ==
    << "TRACK_DISPLACEMENT", "TRACK_MEAN_SPEED", "TRACK_MEDIAN_SPEED",
       "TRACK_MEAN_QUALITY", "TOTAL_DISTANCE_TRAVELED",
       "MEAN_STRAIGHT_LINE_SPEED", "LINEARITY_OF_FORWARD_PROGRESSION" >>

duration_threshold == 65
quality_percentile_filter == 50

\* float('nan') in a cell: the one value v for which float(v) != float(v)
nan == -99

IsNan(v) == v = nan

\* ------------------------------------------------------------------------
\* Scalars: (a + k*sqrt(d)) / n, NaN and None
\* ------------------------------------------------------------------------
Num(a, k, d, n) == [kind |-> "num", a |-> a, k |-> k, d |-> d, n |-> n]
NaN == [kind |-> "nan", a |-> 0, k |-> 0, d |-> 0, n |-> 1]
None == [kind |-> "None", a |-> 0, k |-> 0, d |-> 0, n |-> 1]
Zero == Num(0, 0, 0, 1)
Whole(x) == Num(x, 0, 0, 1)

\* float(cell) < r, false whenever r is NaN
CellLt(x, r) ==
    /\ r.kind = "num"
    /\ ~IsNan(x)
    /\ LET l == r.n * x - r.a
       IN  l < 0 \/ (r.k > 0 /\ l * l < r.k * r.k * r.d)

\* r == 0.0
IsZero(r) ==
    /\ r.kind = "num"
    /\ r.a <= 0
    /\ r.a * r.a = r.k * r.k * r.d

\* r != 0.0 (true of NaN)
NonZero(r) == ~IsZero(r)

\* ------------------------------------------------------------------------
\* DataFrame: ordered columns, ordered rows; a row is its label (the index
\* of the csv line) and its cells by column name
\* ------------------------------------------------------------------------
SeqToSet(s) == {s[j] : j \in 1..Len(s)}

RECURSIVE SelectSeqBy(_, _)
\* the subsequence of s whose elements are in the set keep
SelectSeqBy(s, keep) ==
    IF s = << >> THEN << >>
    ELSE IF Head(s) \in keep
         THEN << Head(s) >> \o SelectSeqBy(Tail(s), keep)
         ELSE SelectSeqBy(Tail(s), keep)

Labels(df) == {df.rows[j].label : j \in 1..Len(df.rows)}

\* len(csv), csv.shape[0]
NumRows(df) == Len(df.rows)

\* csv.drop(axis=0, inplace=True, labels=[label])
DropRow(df, label) ==
    [df EXCEPT !.rows = SelectSeq(df.rows, LAMBDA r : r.label # label)]

\* csv.drop(axis=1, inplace=True, labels=names)
DropColumns(df, names) ==
    LET keep == SelectSeqBy(df.columns, SeqToSet(df.columns) \ names)
    IN  [columns |-> keep,
         rows |-> [j \in 1..Len(df.rows) |->
                     [label |-> df.rows[j].label,
                      v |-> [c \in SeqToSet(keep) |-> df.rows[j].v[c]]]]]

\* csv[col_name].astype(float).to_list()
Column(df, c) == [j \in 1..Len(df.rows) |-> df.rows[j].v[c]]

\* ------------------------------------------------------------------------
\* numpy statistics, exact
\* ------------------------------------------------------------------------
RECURSIVE Sum(_)
Sum(s) == IF s = << >> THEN 0 ELSE Head(s) + Sum(Tail(s))

\* numpy.mean: NaN (with a warning) on an empty list
mean(s) == IF Len(s) = 0 THEN NaN ELSE Num(Sum(s), 0, 0, Len(s))

\* numpy.std (population): sqrt(n*sum(x^2) - sum(x)^2) / n
std(s) ==
    IF Len(s) = 0 THEN NaN
    ELSE Num(0, 1, Len(s) * Sum([j \in 1..Len(s) |-> s[j] * s[j]])
                    - Sum(s) * Sum(s), Len(s))

\* the element at 0-based position k of sorted(s)
Sorted(s, k) ==
    CHOOSE x \in SeqToSet(s) :
        /\ Cardinality({j \in 1..Len(s) : s[j] < x}) <= k
        /\ k < Cardinality({j \in 1..Len(s) : s[j] <= x})

\* numpy.percentile(s, q), linear interpolation between the two order
\* statistics around position (n-1)*q/100; s is not empty
percentile(s, q) ==
    LET pos == (Len(s) - 1) * q
        f == pos \div 100
        r == pos % 100
        lo == Sorted(s, f)
        hi == IF r = 0 THEN lo ELSE Sorted(s, f + 1)
    IN  Num(100 * lo + r * (hi - lo), 0, 0, 100)

\* q3 - q1 of two percentile results
Minus(x, y) == Num(x.a - y.a, 0, 0, 100)

\* mean + multiplier * std of one column (same n); NaN if either is not
\* a number
PlusTimes(m, mult, s) ==
    IF m.kind = "num" /\ s.kind = "num"
    THEN Num(m.a, mult * s.k, s.d, m.n)
    ELSE NaN

\* x < m - (fn/fd)*s, for a mean m and a spread s (a std or an IQR)
BelowLower(x, m, s, fn, fd) ==
    /\ m.kind = "num" /\ s.kind = "num"
    /\ LET c == fn * m.n * s.k
           rhs == m.a * s.n * fd - fn * m.n * s.a - x * m.n * s.n * fd
       IN  rhs > 0 /\ c * c * s.d < rhs * rhs

\* x > m + (fn/fd)*s
AboveUpper(x, m, s, fn, fd) ==
    /\ m.kind = "num" /\ s.kind = "num"
    /\ LET c == fn * m.n * s.k
           lhs == x * m.n * s.n * fd - m.a * s.n * fd - fn * m.n * s.a
       IN  lhs > 0 /\ lhs * lhs > c * c * s.d

\* ------------------------------------------------------------------------
\* do_file: the stages.  A frame is the local state of one do_file call:
\*   csv, backup            the table and the last deep copy of it
\*   dropped                dropped_row_indices
\*   exc                    "none", or the exception leaving do_file
\*   evals, trace           history: every row evaluation of every loop, and
\*                          one record per stage that ran
\* env is what the call reads: its arguments and the module settings.
\* ------------------------------------------------------------------------
Stages ==
    << "DURATION_THRESHOLD", "SPEED_THRESHOLD", "DISPLACEMENT_THRESHOLD",
       "LINEARITY_THRESHOLD", "QUALITY_PERCENTILE", "INTERNAL_STD_FILTERING",
       "INTERNAL_IQR_FILTERING" >>

\* the speed stage reading TRACK_MEAN_SPEED
StageColumnMeanSpeed(stage) ==
    CASE stage = "DURATION_THRESHOLD" -> "TRACK_DURATION"
      [] stage = "SPEED_THRESHOLD" -> "TRACK_MEAN_SPEED"
      [] stage = "DISPLACEMENT_THRESHOLD" -> "TRACK_DISPLACEMENT"
      [] stage = "LINEARITY_THRESHOLD" -> "LINEARITY_OF_FORWARD_PROGRESSION"
      [] stage = "QUALITY_PERCENTILE" -> "TRACK_MEAN_QUALITY"

\* the column a threshold stage reads
StageColumn(stage) ==
    CASE stage = "DURATION_THRESHOLD" -> "TRACK_DURATION"
      [] stage = "SPEED_THRESHOLD" -> "MEAN_STRAIGHT_LINE_SPEED"
      [] stage = "DISPLACEMENT_THRESHOLD" -> "TRACK_DISPLACEMENT"
      [] stage = "LINEARITY_THRESHOLD" -> "LINEARITY_OF_FORWARD_PROGRESSION"
      [] stage = "QUALITY_PERCENTILE" -> "TRACK_MEAN_QUALITY"

\* std_drop_flags / iqr_drop_flags; None is the empty sequence
NoFlags == << >>
IsNone(flags) == flags = NoFlags

StageFlags(stage, env) ==
    IF stage = "INTERNAL_STD_FILTERING" THEN env.std_drop_flags
    ELSE env.iqr_drop_flags

\* the quality stage with its if forgotten
StageEnabledQualityAlways(stage, df, env) ==
    CASE stage = "DURATION_THRESHOLD" -> env.do_duration_thresh
      [] stage = "SPEED_THRESHOLD" -> env.do_speed_thresh
      [] stage = "DISPLACEMENT_THRESHOLD" -> env.do_displacement_thresh
      [] stage = "LINEARITY_THRESHOLD" -> env.do_linearity_thresh
      [] stage = "QUALITY_PERCENTILE" -> TRUE
      [] stage = "INTERNAL_STD_FILTERING" -> ~IsNone(env.std_drop_flags)
      [] stage = "INTERNAL_IQR_FILTERING" ->
            /\ ~IsNone(env.iqr_drop_flags)
            /\ Len(env.iqr_drop_flags) = Len(df.columns)

\* the condition under which the stage's loop runs
StageEnabled(stage, df, env) ==
    CASE stage = "DURATION_THRESHOLD" -> env.do_duration_thresh
      [] stage = "SPEED_THRESHOLD" -> env.do_speed_thresh
      [] stage = "DISPLACEMENT_THRESHOLD" -> env.do_displacement_thresh
      [] stage = "LINEARITY_THRESHOLD" -> env.do_linearity_thresh
      [] stage = "QUALITY_PERCENTILE" -> env.do_quality_percentile_filter
      [] stage = "INTERNAL_STD_FILTERING" -> ~IsNone(env.std_drop_flags)
      [] stage = "INTERNAL_IQR_FILTERING" ->
            /\ ~IsNone(env.iqr_drop_flags)
            /\ Len(env.iqr_drop_flags) = Len(df.columns)

\* the function-local i that the comprehension of the iqr means reads: the
\* last value the preceding for loop over enumerate(csv.columns) gave it
\* (0-based there, 1-based here)
StaleIndex(df) == Len(df.columns)

\* the flag deciding whether the mean of column position j is computed
MeanFlag(stage, flags, df, j) ==
    IF stage = "INTERNAL_STD_FILTERING" THEN flags[j]
    ELSE flags[StaleIndex(df)]

\* 2*std resp. 1.5*iqr: the factor as a fraction
FactorNum(stage) == IF stage = "INTERNAL_STD_FILTERING" THEN 2 ELSE 3
FactorDen(stage) == IF stage = "INTERNAL_STD_FILTERING" THEN 1 ELSE 2

Spread(stage, s) ==
    IF stage = "INTERNAL_STD_FILTERING" THEN std(s)
    ELSE IF Len(s) = 0 THEN NaN
    ELSE Minus(percentile(s, 75), percentile(s, 25))

\* the values a stage computes before its loop
Bounds(stage, df, env) ==
    CASE stage = "DURATION_THRESHOLD" ->
            [thr |-> Whole(duration_threshold), means |-> << >>, spreads |-> << >>]
      [] stage = "SPEED_THRESHOLD" ->
            [thr |-> env.speed_threshold, means |-> << >>, spreads |-> << >>]
      [] stage = "DISPLACEMENT_THRESHOLD" ->
            [thr |-> env.displacement_threshold, means |-> << >>, spreads |-> << >>]
      [] stage = "LINEARITY_THRESHOLD" ->
            [thr |-> env.linearity_threshold, means |-> << >>, spreads |-> << >>]
      [] stage = "QUALITY_PERCENTILE" ->
            [thr |-> IF NumRows(df) = 0 THEN NaN
                     ELSE percentile(Column(df, "TRACK_MEAN_QUALITY"),
                                     quality_percentile_filter),
             means |-> << >>, spreads |-> << >>]
      [] stage \in {"INTERNAL_STD_FILTERING", "INTERNAL_IQR_FILTERING"} ->
            LET flags == StageFlags(stage, env)
            IN  [thr |-> NaN,
                 means |-> [j \in 1..Len(df.columns) |->
                              IF MeanFlag(stage, flags, df, j)
                              THEN mean(Column(df, df.columns[j])) ELSE Zero],
                 spreads |-> [j \in 1..Len(df.columns) |->
                              IF flags[j]
                              THEN Spread(stage, Column(df, df.columns[j]))
                              ELSE Zero]]

\* the "ONLY if this is control" test of the std and iqr loops
UpperBranchOpen(env) == IsZero(env.speed_threshold)

\* which branch of the inner loop fires at column position j
HitAt(stage, row, columns, j, b, env) ==
    LET x == row.v[columns[j]]
        flags == StageFlags(stage, env)
    IN  IF BelowLower(x, b.means[j], b.spreads[j], FactorNum(stage), FactorDen(stage))
        THEN "lower"
        ELSE IF /\ UpperBranchOpen(env)
                /\ flags[j]
                /\ AboveUpper(x, b.means[j], b.spreads[j], FactorNum(stage), FactorDen(stage))
        THEN "upper"
        ELSE "none"

\* a threshold stage removing the rows at or above its threshold
HitAtOrAbove(stage, row, columns, b, env) ==
    IF stage \in {"INTERNAL_STD_FILTERING", "INTERNAL_IQR_FILTERING"}
    THEN LET hits == {j \in 1..Len(columns) :
                        HitAt(stage, row, columns, j, b, env) # "none"}
         IN  IF hits = {} THEN [branch |-> "none", at |-> 0]
             ELSE LET first == CHOOSE j \in hits : \A k \in hits : j <= k
                  IN  [branch |-> HitAt(stage, row, columns, first, b, env),
                       at |-> first]
    ELSE LET x == row.v[StageColumn(stage)]
         IN  IF ~CellLt(x, b.thr) \/ (stage = "DURATION_THRESHOLD" /\ IsNan(x))
             THEN [branch |-> "lower", at |-> 0]
             ELSE [branch |-> "none", at |-> 0]

\* how one row fares in the loop of a stage: "none", "lower" or "upper",
\* and for std/iqr the first column position that decided (0 otherwise)
Hit(stage, row, columns, b, env) ==
    IF stage \in {"INTERNAL_STD_FILTERING", "INTERNAL_IQR_FILTERING"}
    THEN LET hits == {j \in 1..Len(columns) :
                        HitAt(stage, row, columns, j, b, env) # "none"}
         IN  IF hits = {} THEN [branch |-> "none", at |-> 0]
             ELSE LET first == CHOOSE j \in hits : \A k \in hits : j <= k
                  IN  [branch |-> HitAt(stage, row, columns, first, b, env),
                       at |-> first]
    ELSE LET x == row.v[StageColumn(stage)]
         IN  IF CellLt(x, b.thr) \/ (stage = "DURATION_THRESHOLD" /\ IsNan(x))
             THEN [branch |-> "lower", at |-> 0]
             ELSE [branch |-> "none", at |-> 0]

\* the bounds recomputed for every row from the table as it then stands
BoundsInLoopRecomputed(stage, atEntry, current, env) ==
    Bounds(stage, current, env)

\* the bounds in scope while the loop evaluates a row: the ones computed
\* before the loop, whatever the table has become
BoundsInLoop(stage, atEntry, current, env) == atEntry

\* the body of the loop once the row's test is decided: the evaluation is
\* noted and, on a hit, dropped_row_indices.append(...); csv.drop(...)
LoopBody(stage, row, used, hit, fr) ==
    IF hit.branch = "none"
    THEN [fr EXCEPT
            !.evals = Append(@, [stage |-> stage, label |-> row.label,
                                 bounds |-> used, branch |-> hit.branch,
                                 at |-> hit.at])]
    ELSE [fr EXCEPT
            !.evals = Append(@, [stage |-> stage, label |-> row.label,
                                 bounds |-> used, branch |-> hit.branch,
                                 at |-> hit.at]),
            !.dropped = Append(@,
                [label |-> row.label,
                 speed |-> row.v["MEAN_STRAIGHT_LINE_SPEED"],
                 reason |-> stage]),
            !.csv = DropRow(@, row.label)]

\* one row of the loop, tested against the bounds in scope
LoopRow(stage, row, columns, used, fr, env) ==
    LoopBody(stage, row, used, Hit(stage, row, columns, used, env), fr)

RECURSIVE Loop(_, _, _, _, _, _)
\* for row in csv.iterrows(): ...  iterrows walks the rows the table had
\* when the loop began.
Loop(stage, todo, columns, b, fr, env) ==
    IF todo = << >> THEN fr
    ELSE Loop(stage, Tail(todo), columns, b,
              LoopRow(stage, Head(todo), columns,
                      BoundsInLoop(stage, b, fr.csv, env), fr, env),
              env)

\* what the stage raises other than the overfiltering RuntimeError it
\* catches itself; emptyPct is what numpy.percentile does with an empty
\* array in the installed build ("nan" or "IndexError")
StageError(stage, df, env, emptyPct) ==
    IF ~StageEnabled(stage, df, env) THEN "none"
    ELSE CASE stage = "DURATION_THRESHOLD" ->
                IF NumRows(df) > 0 /\ "TRACK_DURATION" \notin SeqToSet(df.columns)
                THEN "KeyError" ELSE "none"
           [] stage = "QUALITY_PERCENTILE" ->
                IF NumRows(df) = 0 /\ emptyPct = "IndexError"
                THEN "IndexError" ELSE "none"
           [] stage = "INTERNAL_STD_FILTERING" ->
                IF Len(env.std_drop_flags) < Len(df.columns)
                THEN "IndexError" ELSE "none"
           [] stage = "INTERNAL_IQR_FILTERING" ->
                IF /\ NumRows(df) = 0
                   /\ \E j \in 1..Len(env.iqr_drop_flags) : env.iqr_drop_flags[j]
                   /\ emptyPct = "IndexError"
                THEN "IndexError" ELSE "none"
           [] OTHER -> "none"

\* no stage taking a copy of the table at its entry
BackupForStale(stage, fr) == fr.backup

\* the copy the stage's except clause restores: every stage but the speed
\* stage begins with backup = csv.copy(deep=True)
BackupFor(stage, fr) ==
    IF stage = "SPEED_THRESHOLD" THEN fr.backup ELSE fr.csv

\* if csv.shape[0] == 0: raise RuntimeError('Overfiltering Error'), and
\* except RuntimeError: csv = backup.copy(deep=True)
Guard(stage, entry, bk, looped) ==
    [looped EXCEPT
        !.csv = IF NumRows(looped.csv) = 0 THEN bk ELSE looped.csv,
        !.backup = bk,
        !.trace = Append(@, [stage |-> stage, entry |-> entry,
                             applied |-> looped.csv,
                             out |-> IF NumRows(looped.csv) = 0 THEN bk
                                     ELSE looped.csv,
                             fired |-> NumRows(looped.csv) = 0])]

\* one try/except block of do_file
ApplyStage(stage, fr, env, emptyPct) ==
    IF StageError(stage, fr.csv, env, emptyPct) # "none"
    THEN [fr EXCEPT !.backup = BackupFor(stage, fr),
                    !.exc = StageError(stage, fr.csv, env, emptyPct)]
    ELSE Guard(stage, fr.csv, BackupFor(stage, fr),
               IF StageEnabled(stage, fr.csv, env)
               THEN Loop(stage, fr.csv.rows, fr.csv.columns,
                         Bounds(stage, fr.csv, env), fr, env)
               ELSE fr)

\* pd.read_csv and the column selection, order check and header drop.
\* A file is [exists, columns, rows]; its rows are the lines after the
\* three header lines, labelled from 3.
Wanted(file) ==
    SelectSeqBy(file.columns, SeqToSet(col_names) \cup {"TRACK_DURATION"})

OrderOk(columns) ==
    LET kept == SelectSeqBy(columns, SeqToSet(columns) \ {"TRACK_DURATION"})
    IN  \A j \in 1..Len(kept) : kept[j] = col_names[j]

LoadError(file) ==
    IF ~file.exists THEN "FileNotFoundError"
    ELSE IF ~OrderOk(Wanted(file)) THEN "AssertionError"
    ELSE "none"

Load(file) ==
    LET df == DropColumns([columns |-> file.columns, rows |-> file.rows],
                          SeqToSet(file.columns) \ SeqToSet(Wanted(file)))
    IN  [csv |-> df, backup |-> df, dropped |-> << >>, evals |-> << >>,
         trace |-> << >>, exc |-> "none"]

NoFrame ==
    [csv |-> [columns |-> << >>, rows |-> << >>],
     backup |-> [columns |-> << >>, rows |-> << >>],
     dropped |-> << >>, evals |-> << >>, trace |-> << >>, exc |-> "none"]

RECURSIVE NullLoop(_, _)
NullLoop(todo, df) ==
    IF todo = << >> THEN df
    ELSE NullLoop(Tail(todo),
                  IF IsNan(Head(todo).v["TRACK_DURATION"])
                  THEN DropRow(df, Head(todo).label) ELSE df)

\* backup = csv.copy(deep=True), then the null filtering loop
NullFilter(fr) ==
    IF NumRows(fr.csv) > 0 /\ "TRACK_DURATION" \notin SeqToSet(fr.csv.columns)
    THEN [fr EXCEPT !.backup = fr.csv, !.exc = "KeyError"]
    ELSE [fr EXCEPT !.backup = fr.csv,
                    !.csv = IF NumRows(fr.csv) = 0 THEN fr.csv
                            ELSE NullLoop(fr.csv.rows, fr.csv)]

\* the duration column dropped without the column asserts
DropDurationUnchecked(fr) ==
    IF "TRACK_DURATION" \notin SeqToSet(fr.csv.columns)
    THEN [fr EXCEPT !.exc = "KeyError"]
    ELSE [fr EXCEPT !.csv = DropColumns(fr.csv, {"TRACK_DURATION"})]

\* csv.drop(axis=1, labels=['TRACK_DURATION']) and the two column asserts
DropDuration(fr) ==
    IF "TRACK_DURATION" \notin SeqToSet(fr.csv.columns)
    THEN [fr EXCEPT !.exc = "KeyError"]
    ELSE LET df == DropColumns(fr.csv, {"TRACK_DURATION"})
         IN  IF df.columns # col_names
             THEN [fr EXCEPT !.csv = df, !.exc = "AssertionError"]
             ELSE [fr EXCEPT !.csv = df]

\* conversion = 4 * 0.32, as a fraction
conversion == [num |-> 128, den |-> 100]

Times(m, c) ==
    IF m.kind = "num" THEN Num(m.a * c.num, m.k * c.num, m.d, m.n * c.den)
    ELSE m

\* the summary block: means and stds of the final table, the two counts
\* and the converted speed
Summary(df, initial_num_rows) ==
    LET final_num_rows == NumRows(df)
        means == [j \in 1..Len(col_names) |->
                    IF final_num_rows = 0 THEN None
                    ELSE mean(Column(df, col_names[j]))]
    IN  [output_data |->
            means \o << Whole(initial_num_rows), Whole(final_num_rows),
                        IF means[6] = None THEN None
                        ELSE Times(means[6], conversion) >>,
         output_std |->
            [j \in 1..Len(col_names) |-> std(Column(df, col_names[j]))]]

\* the scatter plot block: with the module's brownian_speed_threshold at
\* 0.0 it adds output_data[5] to a float, a TypeError when that is None
PlotError(out, env) ==
    IF /\ env.do_filter_scatter_plots
       /\ IsZero(env.brownian_speed_threshold)
       /\ out.output_data[6] = None
    THEN "TypeError" ELSE "none"

\* ------------------------------------------------------------------------
\* Inputs: files, settings, thresholds
\* ------------------------------------------------------------------------
Row(dur, disp, ms, med, q, dist, sls, lin) ==
    [c \in SeqToSet(col_names) \cup {"TRACK_DURATION", "LABEL"} |->
        CASE c = "TRACK_DURATION" -> dur
          [] c = "TRACK_DISPLACEMENT" -> disp
          [] c = "TRACK_MEAN_SPEED" -> ms
          [] c = "TRACK_MEDIAN_SPEED" -> med
          [] c = "TRACK_MEAN_QUALITY" -> q
          [] c = "TOTAL_DISTANCE_TRAVELED" -> dist
          [] c = "MEAN_STRAIGHT_LINE_SPEED" -> sls
          [] c = "LINEARITY_OF_FORWARD_PROGRESSION" -> lin
          [] OTHER -> 0]

\* the typical track, and the tracks that differ from it
Filler == Row(65, 2, 2, 2, 2, 2, 2, 2)

Pool ==
    << Row(nan, 2, 2, 2, 2, 2, 2, 2),
       Row(64, 2, 2, 2, 2, 2, 3, 2),
       Row(65, 2, 2, 2, 2, 2, 1, 2),
       Row(65, 2, 2, 2, 3, 2, 3, 2),
       Row(65, 1, 2, 2, 1, 2, 2, 1),
       Row(65, 2, 2, 2, 2, -1, 2, 2) >>

\* non-decreasing choices of at most MaxVar pool rows
VarChoices ==
    UNION {{s \in [1..k -> 1..Len(Pool)] :
                \A j \in 1..(k - 1) : s[j] <= s[j + 1]} : k \in 0..MaxVar}

TableRows(fill, choice) ==
    [j \in 1..(fill + Len(choice)) |->
        [label |-> j + 2,
         v |-> IF j <= fill THEN Filler ELSE Pool[choice[j - fill]]]]

\* no filler, one, or as many as MaxFill
FillChoices == {f \in 0..MaxFill : f <= 1 \/ f = MaxFill}

Tables == {TableRows(fill, ch) : fill \in FillChoices, ch \in VarChoices}

StandardLayout == << "LABEL", "TRACK_DURATION" >> \o col_names

\* exports that differ: two columns swapped, no TRACK_DURATION, the last
\* column missing
OtherLayouts ==
    {<< "LABEL", "TRACK_DURATION", "TRACK_MEAN_SPEED", "TRACK_DISPLACEMENT" >>
        \o SubSeq(col_names, 3, 7),
     << "LABEL" >> \o col_names,
     << "LABEL", "TRACK_DURATION" >> \o SubSeq(col_names, 1, 6)}

Files ==
    {[exists |-> TRUE, columns |-> StandardLayout, rows |-> t] : t \in Tables}
    \cup {[exists |-> TRUE, columns |-> l, rows |-> TableRows(MaxFill, << >>)] :
             l \in OtherLayouts}
    \cup {[exists |-> FALSE, columns |-> << >>, rows |-> << >>]}

\* the flag lists tried: MEAN_STRAIGHT_LINE_SPEED alone, and with
\* LINEARITY_OF_FORWARD_PROGRESSION
FlagLists ==
    {NoFlags,
     << FALSE, FALSE, FALSE, FALSE, FALSE, TRUE, FALSE >>,
     << FALSE, FALSE, FALSE, FALSE, FALSE, TRUE, TRUE >>}

\* the settings block as shipped
Defaults ==
    [do_std_filter_flags |-> NoFlags,
     do_iqr_filter_flags |-> NoFlags,
     do_quality_percentile_filter |-> FALSE,
     do_speed_thresh |-> TRUE,
     do_displacement_thresh |-> FALSE,
     do_linearity_thresh |-> FALSE,
     do_duration_thresh |-> TRUE,
     do_filter_scatter_plots |-> TRUE,
     do_speed_thresh_fallback |-> FALSE,
     brownian_multiplier |-> 0]

AllSettings ==
    [do_std_filter_flags : FlagLists,
     do_iqr_filter_flags : FlagLists,
     do_quality_percentile_filter : BOOLEAN,
     do_speed_thresh : BOOLEAN,
     do_displacement_thresh : BOOLEAN,
     do_linearity_thresh : BOOLEAN,
     do_duration_thresh : BOOLEAN,
     do_filter_scatter_plots : BOOLEAN,
     do_speed_thresh_fallback : BOOLEAN,
     brownian_multiplier : {0, 2}]

\* settings that differ from the shipped ones in at most MaxChanges places
Settings ==
    {c \in AllSettings :
        Cardinality({f \in DOMAIN Defaults : c[f] # Defaults[f]}) <= MaxChanges}

\* what do_file reads: the settings, its arguments, and the module's
\* brownian_speed_threshold
Env(c, disp, speed, lin, std_flags, iqr_flags, global_speed) ==
    [do_quality_percentile_filter |-> c.do_quality_percentile_filter,
     do_speed_thresh |-> c.do_speed_thresh,
     do_displacement_thresh |-> c.do_displacement_thresh,
     do_linearity_thresh |-> c.do_linearity_thresh,
     do_duration_thresh |-> c.do_duration_thresh,
     do_filter_scatter_plots |-> c.do_filter_scatter_plots,
     displacement_threshold |-> disp,
     speed_threshold |-> speed,
     linearity_threshold |-> lin,
     std_drop_flags |-> std_flags,
     iqr_drop_flags |-> iqr_flags,
     brownian_speed_threshold |-> global_speed]

\* the argument triples tried for one call: the control's zeros, and
\* thresholds some tracks of the pool miss
ThresholdChoices ==
    {[displacement |-> Zero, speed |-> Zero, linearity |-> Zero],
     [displacement |-> Whole(2), speed |-> Whole(2), linearity |-> Whole(2)]}

\* numpy.percentile of an empty array: NaN in older builds, IndexError in
\* newer ones
EmptyPercentile == {"nan", "IndexError"}

\* ------------------------------------------------------------------------
\* do_file as a whole: the blocks in order, stopping at the first exception
\* ------------------------------------------------------------------------
Then(stage, fr, e, emptyPct) ==
    IF fr.exc # "none" THEN fr ELSE ApplyStage(stage, fr, e, emptyPct)

ThenDropDuration(fr) ==
    IF fr.exc # "none" THEN fr ELSE DropDuration(fr)

\* from the null filtering to the iqr stage
RunStages(loaded, e, emptyPct) ==
    Then("INTERNAL_IQR_FILTERING",
      Then("INTERNAL_STD_FILTERING",
        Then("QUALITY_PERCENTILE",
          Then("LINEARITY_THRESHOLD",
            Then("DISPLACEMENT_THRESHOLD",
              Then("SPEED_THRESHOLD",
                ThenDropDuration(
                  Then("DURATION_THRESHOLD", NullFilter(loaded), e, emptyPct)),
                e, emptyPct),
              e, emptyPct),
            e, emptyPct),
          e, emptyPct),
        e, emptyPct),
      e, emptyPct)

\* what the call hands back: the pair if nothing was raised
Returned(fr, out, err) ==
    [frame |-> [fr EXCEPT !.exc = err],
     exc |-> err,
     output_data |-> IF err = "none" THEN out.output_data ELSE << >>,
     output_std |-> IF err = "none" THEN out.output_std ELSE << >>]

\* the summary and plot blocks after the stages
AfterStages(fr, out, e) ==
    Returned(fr, out, IF fr.exc # "none" THEN fr.exc ELSE PlotError(out, e))

Summarised(fr, initial, e) ==
    AfterStages(fr, Summary(fr.csv, initial), e)

\* the call: the final frame, the returned pair, the exception if any
RunFile(f, e, emptyPct) ==
    IF LoadError(f) # "none"
    THEN [frame |-> [NoFrame EXCEPT !.exc = LoadError(f)],
          exc |-> LoadError(f), output_data |-> << >>, output_std |-> << >>]
    ELSE Summarised(RunStages(Load(f), e, emptyPct), NumRows(Load(f).csv), e)

\* ------------------------------------------------------------------------
\* State
\* ------------------------------------------------------------------------
VARIABLES
    pc,                     \* where the do_file call stands
    file,                   \* the file the call was given
    env,                    \* what the call reads
    csv, backup,            \* the table and its last deep copy
    dropped_row_indices,
    initial_num_rows,
    output_data, output_std,
    exc,                    \* the exception leaving do_file, or "none"
    evals, trace,           \* history of the call
    mpc,                    \* where main stands
    run,                    \* main's settings and the files found
    i,                      \* main's loop index (0-based)
    array, std_array,
    brownian_speed_threshold,
    brownian_displacement_threshold,
    brownian_linearity_threshold,
    calls,                  \* history: the do_file calls main made
    returning,              \* do_file's return block: name and label
    simple,                 \* simple.py: the locals of main
    relative,               \* reverser.py: the locals of get_relative
    pandas_test             \* pandas_test_2.py: the locals of the main block

fvars == << pc, file, env, csv, backup, dropped_row_indices, initial_num_rows,
            output_data, output_std, exc, evals, trace >>

mvars == << mpc, run, i, array, std_array, brownian_speed_threshold,
            brownian_displacement_threshold, brownian_linearity_threshold,
            calls >>

\* the state of the return block and of the other scripts
ovars == << returning, simple, relative, pandas_test >>

vars == << fvars, mvars, ovars >>

Frame ==
    [csv |-> csv, backup |-> backup, dropped |-> dropped_row_indices,
     evals |-> evals, trace |-> trace, exc |-> exc]

\* the frame after a step, and the position after it
SetFrame(fr, next) ==
    /\ csv' = fr.csv
    /\ backup' = fr.backup
    /\ dropped_row_indices' = fr.dropped
    /\ evals' = fr.evals
    /\ trace' = fr.trace
    /\ exc' = fr.exc
    /\ pc' = IF fr.exc = "none" THEN next ELSE "raised"

\* nothing of the return block or of the other scripts has run
OthersIdle ==
    /\ returning = [pc |-> "idle"]
    /\ simple = [pc |-> "idle"]
    /\ relative = [pc |-> "idle"]
    /\ pandas_test = [pc |-> "idle"]

\* main before it starts; a do_file call on its own leaves it alone
MainIdle ==
    /\ mpc = "idle"
    /\ run = << >>
    /\ i = 0
    /\ array = << >>
    /\ std_array = << >>
    /\ brownian_speed_threshold = Zero
    /\ brownian_displacement_threshold = Zero
    /\ brownian_linearity_threshold = Zero
    /\ calls = << >>

\* ------------------------------------------------------------------------
\* One call of do_file, block by block
\* ------------------------------------------------------------------------
Init ==
    /\ pc = "load"
    /\ file \in Files
    /\ \E c \in Settings, th \in ThresholdChoices :
          env = Env(c, th.displacement, th.speed, th.linearity,
                    c.do_std_filter_flags, c.do_iqr_filter_flags, th.speed)
    /\ csv = NoFrame.csv
    /\ backup = NoFrame.backup
    /\ dropped_row_indices = << >>
    /\ initial_num_rows = 0
    /\ output_data = << >>
    /\ output_std = << >>
    /\ exc = "none"
    /\ evals = << >>
    /\ trace = << >>
    /\ MainIdle
    /\ OthersIdle

LoadFile ==
    /\ pc = "load"
    /\ IF LoadError(file) # "none"
       THEN /\ pc' = "raised"
            /\ exc' = LoadError(file)
            /\ UNCHANGED << csv, backup, dropped_row_indices, evals, trace,
                            initial_num_rows >>
       ELSE \E fr \in {Load(file)} :
                /\ SetFrame(fr, "null")
                /\ initial_num_rows' = NumRows(fr.csv)
    /\ UNCHANGED << file, env, output_data, output_std, mvars, ovars >>

NullFiltering ==
    /\ pc = "null"
    /\ \E fr \in {NullFilter(Frame)} : SetFrame(fr, "duration")
    /\ UNCHANGED << file, env, initial_num_rows, output_data, output_std, mvars, ovars >>

StageStep(at, stage, next) ==
    /\ pc = at
    /\ \E emptyPct \in IF NumRows(csv) = 0 THEN EmptyPercentile ELSE {"nan"} :
          \E fr \in {ApplyStage(stage, Frame, env, emptyPct)} :
             SetFrame(fr, next)
    /\ UNCHANGED << file, env, initial_num_rows, output_data, output_std, mvars, ovars >>

DurationStage == StageStep("duration", "DURATION_THRESHOLD", "columns")

DropDurationColumn ==
    /\ pc = "columns"
    /\ \E fr \in {DropDuration(Frame)} : SetFrame(fr, "speed")
    /\ UNCHANGED << file, env, initial_num_rows, output_data, output_std, mvars, ovars >>

SpeedStage == StageStep("speed", "SPEED_THRESHOLD", "displacement")

DisplacementStage ==
    StageStep("displacement", "DISPLACEMENT_THRESHOLD", "linearity")

LinearityStage == StageStep("linearity", "LINEARITY_THRESHOLD", "quality")

QualityStage == StageStep("quality", "QUALITY_PERCENTILE", "std")

StdStage == StageStep("std", "INTERNAL_STD_FILTERING", "iqr")

IqrStage == StageStep("iqr", "INTERNAL_IQR_FILTERING", "summary")

Summarise ==
    /\ pc = "summary"
    /\ \E out \in {Summary(csv, initial_num_rows)} :
          /\ output_data' = out.output_data
          /\ output_std' = out.output_std
    /\ pc' = "plots"
    /\ UNCHANGED << file, env, csv, backup, dropped_row_indices,
                    initial_num_rows, exc, evals, trace, mvars, ovars >>

PlotAndReturn ==
    /\ pc = "plots"
    /\ LET err == PlotError([output_data |-> output_data], env)
       IN  /\ exc' = err
           /\ pc' = IF err = "none" THEN "returned" ELSE "raised"
    /\ UNCHANGED << file, env, csv, backup, dropped_row_indices,
                    initial_num_rows, output_data, output_std, evals, trace,
                    mvars, ovars >>

Next ==
    \/ LoadFile
    \/ NullFiltering
    \/ DurationStage
    \/ DropDurationColumn
    \/ SpeedStage
    \/ DisplacementStage
    \/ LinearityStage
    \/ QualityStage
    \/ StdStage
    \/ IqrStage
    \/ Summarise
    \/ PlotAndReturn

Spec == Init /\ [][Next]_vars

\* ------------------------------------------------------------------------
\* main: the condition loop
\* ------------------------------------------------------------------------
\* the first entries of patterns, by the frequency they match; the first
\* one is the control's
Patterns == << "0khz", "0.8khz", "1khz" >>
MaxFound == 3

brownian_speed_threshold_fallback == Num(421, 0, 0, 10000)

\* the track a file of a run holds besides the filler: none, one without
\* a duration, a slow one or a fast one
MainChoices == {<< >>, << 1 >>, << 3 >>, << 4 >>}

\* the files a run may find: such a table, a file of another layout, or a
\* name that cannot be read
MainFiles ==
    {f \in Files :
        \/ ~f.exists
        \/ f.columns # StandardLayout
        \/ \E ch \in MainChoices :
              f.rows = TableRows(0, ch) \/ f.rows = TableRows(MaxFill, ch)}

\* name_fixer.fix_names(patterns): which patterns matched a file, in
\* pattern order, None dropped
NamesOf(found) == SelectSeqBy(Patterns, found)

Runs ==
    {[found |-> fd, settings |-> c] :
        fd \in {x \in SUBSET SeqToSet(Patterns) : Cardinality(x) <= MaxFound},
        c \in Settings}

names == NamesOf(run.found)
has_control == Patterns[1] \in run.found

\* a numpy float row takes None as nan
FloatRow(s) == [j \in 1..Len(s) |-> IF s[j].kind = "None" THEN NaN ELSE s[j]]

FileIdle ==
    /\ pc = "idle"
    /\ file = [exists |-> FALSE, columns |-> << >>, rows |-> << >>]
    /\ env = Env(Defaults, Zero, Zero, Zero, NoFlags, NoFlags, Zero)
    /\ csv = NoFrame.csv
    /\ backup = NoFrame.backup
    /\ dropped_row_indices = << >>
    /\ initial_num_rows = 0
    /\ output_data = << >>
    /\ output_std = << >>
    /\ exc = "none"
    /\ evals = << >>
    /\ trace = << >>

InitMain ==
    /\ mpc = "start"
    /\ run \in Runs
    /\ i = 0
    /\ array = << >>
    /\ std_array = << >>
    /\ brownian_speed_threshold = Zero
    /\ brownian_displacement_threshold = Zero
    /\ brownian_linearity_threshold = Zero
    /\ calls = << >>
    /\ FileIdle
    /\ OthersIdle

\* names = fix_names(patterns) ...; raise RuntimeError('No files could be
\* found.') if none; array, std_array = zeros(...)
FindFiles ==
    /\ mpc = "start"
    /\ IF Len(names) = 0
       THEN mpc' = "aborted" /\ UNCHANGED << array, std_array >>
       ELSE /\ mpc' = "loop"
            /\ array' = [j \in 1..Len(names) |-> [k \in 1..10 |-> Zero]]
            /\ std_array' = [j \in 1..Len(names) |-> [k \in 1..7 |-> Zero]]
    /\ UNCHANGED << run, i, brownian_speed_threshold,
                    brownian_displacement_threshold,
                    brownian_linearity_threshold, calls, fvars, ovars >>

\* the branch of the loop body that is the control's
IsControlTurnLast == i = Len(names) - 1 /\ has_control

IsControlTurn == i = 0 /\ has_control

\* the baseline from column 4 instead of column 5
BaselineSpeedWrongColumn(row, stds, mult) == PlusTimes(row[5], mult, stds[5])

\* array[0][5] + brownian_multiplier * std_array[0][5]
BaselineSpeed(row, stds, mult) == PlusTimes(row[6], mult, stds[6])

\* what the history keeps of one do_file call
CallRecord(name, control, f, e, r) ==
    [name |-> name, control |-> control, file |-> f,
     displacement_threshold |-> e.displacement_threshold,
     speed_threshold |-> e.speed_threshold,
     linearity_threshold |-> e.linearity_threshold,
     exc |-> r.exc,
     upper |-> \E j \in 1..Len(r.frame.evals) :
                  /\ r.frame.evals[j].branch = "upper"
                  /\ r.frame.evals[j].label \notin Labels(r.frame.csv),
     final_num_rows |-> NumRows(r.frame.csv),
     speed_mean |->
        IF r.exc # "none" THEN NaN
        ELSE mean(Column(r.frame.csv, "MEAN_STRAIGHT_LINE_SPEED")),
     speed_std |->
        IF r.exc # "none" THEN NaN
        ELSE std(Column(r.frame.csv, "MEAN_STRAIGHT_LINE_SPEED")),
     displacement_mean |->
        IF r.exc # "none" THEN NaN
        ELSE mean(Column(r.frame.csv, "TRACK_DISPLACEMENT")),
     linearity_mean |->
        IF r.exc # "none" THEN NaN
        ELSE mean(Column(r.frame.csv, "LINEARITY_OF_FORWARD_PROGRESSION"))]

\* the i == 0 and has_control branch: the control's do_file, guarded by
\* except RuntimeError, then the threshold assignments
ControlCall ==
    /\ mpc = "loop"
    /\ i < Len(names)
    /\ IsControlTurn
    /\ \E f \in MainFiles, emptyPct \in EmptyPercentile :
         LET e == Env(run.settings, Zero, Zero, Zero,
                      run.settings.do_std_filter_flags,
                      run.settings.do_iqr_filter_flags,
                      brownian_speed_threshold)
         IN  \E r \in {RunFile(f, e, emptyPct)} :
             LET failed == r.exc = "RuntimeError"
                 row == IF failed THEN [k \in 1..10 |-> NaN]
                        ELSE FloatRow(r.output_data)
                 stds == IF failed THEN [k \in 1..7 |-> NaN]
                         ELSE FloatRow(r.output_std)
             IN
             /\ calls' = Append(calls, CallRecord(names[i + 1], TRUE, f, e, r))
             /\ IF r.exc \notin {"none", "RuntimeError"}
                THEN /\ mpc' = "aborted"
                     /\ UNCHANGED << i, array, std_array,
                                     brownian_speed_threshold,
                                     brownian_displacement_threshold,
                                     brownian_linearity_threshold >>
                ELSE /\ array' = [array EXCEPT ![i + 1] = row]
                     /\ std_array' = [std_array EXCEPT ![i + 1] = stds]
                     /\ brownian_speed_threshold' =
                           BaselineSpeed(row, stds,
                                         run.settings.brownian_multiplier)
                     /\ brownian_displacement_threshold' = row[1]
                     /\ brownian_linearity_threshold' = row[7]
                     /\ i' = i + 1
                     /\ mpc' = "loop"
    /\ UNCHANGED << run, fvars, ovars >>

\* the fallback assigned after every file of the else branch
AfterOtherCallAlways(turn, settings, threshold) ==
    IF settings.do_speed_thresh_fallback
    THEN brownian_speed_threshold_fallback
    ELSE threshold

\* if i == 0 and do_speed_thresh_fallback:
\*     brownian_speed_threshold = brownian_speed_threshold_fallback
AfterOtherCall(turn, settings, threshold) ==
    IF turn = 0 /\ settings.do_speed_thresh_fallback
    THEN brownian_speed_threshold_fallback
    ELSE threshold

\* the else branch: any other file, filtered with the module's thresholds
OtherCall ==
    /\ mpc = "loop"
    /\ i < Len(names)
    /\ ~IsControlTurn
    /\ \E f \in MainFiles, emptyPct \in EmptyPercentile :
         LET e == Env(run.settings,
                      brownian_displacement_threshold,
                      brownian_speed_threshold,
                      brownian_linearity_threshold,
                      run.settings.do_std_filter_flags,
                      run.settings.do_iqr_filter_flags,
                      brownian_speed_threshold)
         IN  \E r \in {RunFile(f, e, emptyPct)} :
             /\ calls' = Append(calls, CallRecord(names[i + 1], FALSE, f, e, r))
             /\ IF r.exc # "none"
                THEN /\ mpc' = "aborted"
                     /\ UNCHANGED << i, array, std_array,
                                     brownian_speed_threshold >>
                ELSE /\ array' = [array EXCEPT ![i + 1] = FloatRow(r.output_data)]
                     /\ std_array' = [std_array EXCEPT ![i + 1] = FloatRow(r.output_std)]
                     /\ brownian_speed_threshold' =
                           AfterOtherCall(i, run.settings,
                                          brownian_speed_threshold)
                     /\ i' = i + 1
                     /\ mpc' = "loop"
    /\ UNCHANGED << run, brownian_displacement_threshold,
                    brownian_linearity_threshold, fvars, ovars >>

\* the loop is over: the summaries are written out
Finish ==
    /\ mpc = "loop"
    /\ i = Len(names)
    /\ mpc' = "done"
    /\ UNCHANGED << run, i, array, std_array, brownian_speed_threshold,
                    brownian_displacement_threshold,
                    brownian_linearity_threshold, calls, fvars, ovars >>

NextMain ==
    \/ FindFiles
    \/ ControlCall
    \/ OtherCall
    \/ Finish

SpecMain == InitMain /\ [][NextMain]_vars

\* ------------------------------------------------------------------------
\* Properties of one do_file call (Spec)
\* ------------------------------------------------------------------------
Finished == pc = "returned"

\* C1: whenever a stage leaves the table with zero rows, the table after
\* its guard is, cell for cell, the table that entered that stage.
RevertRestoresEntry ==
    \A j \in 1..Len(trace) : trace[j].fired => trace[j].out = trace[j].entry

\* C2: no stage, guard included, leaves more rows than entered it, and a
\* stage whose guard fired leaves exactly as many.
RowCountNeverGrows ==
    \A j \in 1..Len(trace) :
        /\ NumRows(trace[j].out) <= NumRows(trace[j].entry)
        /\ trace[j].fired => NumRows(trace[j].out) = NumRows(trace[j].entry)

\* C3: a call that was given at least one row returns a final table with
\* at least one row.
GuardKeepsARow ==
    (Finished /\ initial_num_rows >= 1) => NumRows(csv) >= 1

\* C5: in the quality, std and iqr stages every row of the table that
\* entered the stage is evaluated, each against the percentile, means and
\* spreads of that entering table, and the rows the stage removes are the
\* rows of the entering table that fail those values.
BoundsFixedAtEntry ==
    LET StatStages ==
            {"QUALITY_PERCENTILE", "INTERNAL_STD_FILTERING", "INTERNAL_IQR_FILTERING"}
    IN
    \A j \in 1..Len(trace) :
        LET t == trace[j]
        IN  (t.stage \in StatStages /\ StageEnabled(t.stage, t.entry, env)) =>
                LET b == Bounds(t.stage, t.entry, env)
                    es == {k \in 1..Len(evals) : evals[k].stage = t.stage}
                IN  /\ \A k \in es : evals[k].bounds = b
                    /\ {evals[k].label : k \in es} = Labels(t.entry)
                    /\ Labels(t.applied) =
                         {t.entry.rows[k].label : k \in
                            {k \in 1..NumRows(t.entry) :
                                Hit(t.stage, t.entry.rows[k], t.entry.columns,
                                    b, env).branch = "none"}}

\* a quality, std or iqr loop removed a row and evaluated another after it
RowEvaluatedAfterRemoval ==
    LET StatStages ==
            {"QUALITY_PERCENTILE", "INTERNAL_STD_FILTERING", "INTERNAL_IQR_FILTERING"}
    IN
    \E k \in 1..Len(evals), l \in 1..Len(evals) :
        /\ k < l
        /\ evals[k].stage \in StatStages
        /\ evals[l].stage = evals[k].stage
        /\ evals[k].branch # "none"

OtherCalls == {j \in 1..Len(calls) : ~calls[j].control}

\* C4: no condition other than the control loses a row to the upper bound
\* of the std or iqr stage.
UpperBoundOnlyForControl ==
    \A j \in OtherCalls : ~calls[j].upper

\* the thresholds as the control's returned summary gives them
DerivedFromControl ==
    /\ brownian_speed_threshold =
          PlusTimes(array[1][6], run.settings.brownian_multiplier,
                    std_array[1][6])
    /\ brownian_displacement_threshold = array[1][1]
    /\ brownian_linearity_threshold = array[1][7]

\* C7: with a control file present, every do_file call for another
\* condition starts after the control's call has returned and the three
\* thresholds have been assigned from its summary.
ControlFirst ==
    [][(has_control /\ Len(calls') > Len(calls)
            /\ ~calls'[Len(calls')].control)
        => /\ Len(calls) >= 1
           /\ calls[1].control
           /\ calls[1].exc = "none"
           /\ i >= 1
           /\ DerivedFromControl]_vars

\* another condition was filtered after the control
OtherAfterControl ==
    /\ has_control
    /\ Len(calls) >= 2
    /\ calls[1].control
    /\ ~calls[2].control

SameThresholdsForAll ==
    LET \* the calls for other conditions that returned a summary
        Filtered == {j \in OtherCalls : calls[j].exc = "none"}
    IN
    \A j \in Filtered, k \in Filtered :
        /\ calls[j].speed_threshold = calls[k].speed_threshold
        /\ calls[j].displacement_threshold = calls[k].displacement_threshold
        /\ calls[j].linearity_threshold = calls[k].linearity_threshold

\* C10: a condition whose file cannot be loaded does not abort the run; its
\* means and stds are recorded as missing and the loop goes on.
LoadFailureIsolated ==
    \A j \in 1..Len(calls) :
        calls[j].exc \in {"FileNotFoundError", "AssertionError", "KeyError"} =>
            /\ mpc # "aborted"
            /\ i >= j
            /\ \A k \in 1..7 : array[j][k] = NaN /\ std_array[j][k] = NaN

\* C11: after a control that ended with zero rows, and without the speed
\* fallback, the run goes on and every other condition's means and stds are
\* recorded as missing.
ExhaustedControlMarksMissing ==
    LET \* the control's call ended with a final table of zero rows
        ControlExhausted ==
            /\ has_control
            /\ Len(calls) >= 1
            /\ calls[1].control
            /\ calls[1].final_num_rows = 0
            /\ calls[1].exc \in {"none", "TypeError"}
    IN
    (ControlExhausted /\ ~run.settings.do_speed_thresh_fallback) =>
        /\ mpc # "aborted"
        /\ \A j \in OtherCalls :
              /\ calls[j].exc = "none"
              /\ i >= j
              /\ \A k \in 1..7 : array[j][k] = NaN /\ std_array[j][k] = NaN

\* C12: after a control that ended with zero rows, and with the speed
\* fallback configured, the speed threshold is the fallback value and every
\* other condition is filtered with it.
FallbackAfterExhaustedControl ==
    LET \* the control's call ended with a final table of zero rows
        ControlExhausted ==
            /\ has_control
            /\ Len(calls) >= 1
            /\ calls[1].control
            /\ calls[1].final_num_rows = 0
            /\ calls[1].exc \in {"none", "TypeError"}
    IN
    (ControlExhausted /\ run.settings.do_speed_thresh_fallback) =>
        /\ brownian_speed_threshold = brownian_speed_threshold_fallback
        /\ \A j \in OtherCalls :
              calls[j].speed_threshold = brownian_speed_threshold_fallback

\* ------------------------------------------------------------------------
\* Properties of one do_file call, continued (Spec)
\* ------------------------------------------------------------------------
\* C13: a call whose final table has zero rows raises nothing and returns
\* None for every mean and every std, with the two row counts reported.
EmptySummaryIsNone ==
    LET \* the call got past its stages with a final table of zero rows
        EndedEmpty ==
            /\ pc \in {"returned", "raised"}
            /\ exc \in {"none", "TypeError"}
            /\ Len(output_data) = 10
            /\ NumRows(csv) = 0
    IN
    EndedEmpty =>
        /\ pc = "returned"
        /\ \A k \in 1..7 : output_data[k] = None /\ output_std[k] = None
        /\ output_data[8] = Whole(initial_num_rows)
        /\ output_data[9] = Whole(0)

\* x is outside the bounds of its column: below m - (fn/fd)*s, or, when the
\* upper bound applies, above m + (fn/fd)*s
Outlier(x, m, s, fn, fd, upper) ==
    \/ BelowLower(x, m, s, fn, fd)
    \/ upper /\ AboveUpper(x, m, s, fn, fd)

\* C14: the rows the std stage removes are exactly the rows that, in some
\* flagged column, lie below mean - 2*std of that column at stage entry, or
\* above mean + 2*std when the call is the control's (speed_threshold 0.0).
StdRemovesFlaggedOutliers ==
    LET \* the rows of df that are outliers of a flagged column by that column's
        \* own mean and std
        StdOutliers(df, flags, upper) ==
            {df.rows[r].label : r \in
                {r \in 1..NumRows(df) :
                    \E j \in 1..Len(df.columns) :
                        /\ flags[j]
                        /\ Outlier(df.rows[r].v[df.columns[j]],
                                   mean(Column(df, df.columns[j])),
                                   std(Column(df, df.columns[j])), 2, 1, upper)}}
    IN
    \A j \in 1..Len(trace) :
        (trace[j].stage = "INTERNAL_STD_FILTERING"
            /\ ~IsNone(env.std_drop_flags)) =>
            Labels(trace[j].entry) \ Labels(trace[j].applied) =
                StdOutliers(trace[j].entry, env.std_drop_flags,
                            IsZero(env.speed_threshold))

\* C15: the rows the iqr stage removes are exactly the rows that, in some
\* flagged column, lie below that column's mean at stage entry minus 1.5
\* times its IQR (or above mean plus 1.5 times IQR in the control's call),
\* whatever the flags.
IqrRemovesFlaggedOutliers ==
    LET \* Q3 - Q1 of a column that is not empty
        Iqr(s) == Minus(percentile(s, 75), percentile(s, 25))
        \* the rows of df that are outliers of a flagged column by that column's
        \* own mean and IQR
        IqrOutliers(df, flags, upper) ==
            {df.rows[r].label : r \in
                {r \in 1..NumRows(df) :
                    \E j \in 1..Len(df.columns) :
                        /\ flags[j]
                        /\ Outlier(df.rows[r].v[df.columns[j]],
                                   mean(Column(df, df.columns[j])),
                                   Iqr(Column(df, df.columns[j])), 3, 2, upper)}}
    IN
    \A j \in 1..Len(trace) :
        (trace[j].stage = "INTERNAL_IQR_FILTERING"
            /\ StageEnabled("INTERNAL_IQR_FILTERING", trace[j].entry, env)) =>
            Labels(trace[j].entry) \ Labels(trace[j].applied) =
                IqrOutliers(trace[j].entry, env.iqr_drop_flags,
                            IsZero(env.speed_threshold))

\* C16: when the speed stage is enabled and some row of the table entering
\* it meets the threshold, the stage removes exactly the rows whose
\* MEAN_STRAIGHT_LINE_SPEED is strictly below the threshold, and each of
\* them, and no other row, has one SPEED_THRESHOLD drop record with its
\* label and speed.
SpeedStageRemovesSlowRows ==
    LET \* how many drop records say that row was removed for reason
        DropRecords(row, reason) ==
            Cardinality({k \in 1..Len(dropped_row_indices) :
                dropped_row_indices[k] =
                    [label |-> row.label,
                     speed |-> row.v["MEAN_STRAIGHT_LINE_SPEED"],
                     reason |-> reason]})
        \* the labels of the rows of df whose MEAN_STRAIGHT_LINE_SPEED is strictly
        \* below the threshold thr
        SlowRows(df, thr) ==
            {df.rows[r].label : r \in
                {r \in 1..NumRows(df) :
                    CellLt(df.rows[r].v["MEAN_STRAIGHT_LINE_SPEED"], thr)}}
    IN
    \A j \in 1..Len(trace) :
        (/\ trace[j].stage = "SPEED_THRESHOLD"
         /\ env.do_speed_thresh
         /\ SlowRows(trace[j].entry, env.speed_threshold)
                # Labels(trace[j].entry)) =>
            /\ ~trace[j].fired
            /\ Labels(trace[j].out) =
                  Labels(trace[j].entry)
                      \ SlowRows(trace[j].entry, env.speed_threshold)
            /\ trace[j].out.columns = trace[j].entry.columns
            /\ \A r \in 1..NumRows(trace[j].entry) :
                  DropRecords(trace[j].entry.rows[r], "SPEED_THRESHOLD") =
                      IF trace[j].entry.rows[r].label
                            \in SlowRows(trace[j].entry, env.speed_threshold)
                      THEN 1 ELSE 0

\* the speed stage removed some rows and kept others
SpeedStageSplit ==
    \E j \in 1..Len(trace) :
        /\ trace[j].stage = "SPEED_THRESHOLD"
        /\ env.do_speed_thresh
        /\ 0 < NumRows(trace[j].out)
        /\ NumRows(trace[j].out) < NumRows(trace[j].entry)

\* C17: with do_duration_thresh disabled no row is removed because of its
\* TRACK_DURATION, a missing one included: the table entering the speed
\* stage holds exactly the rows that were loaded.
DurationOffKeepsLoadedRows ==
    \A j \in 1..Len(trace) :
        (trace[j].stage = "SPEED_THRESHOLD" /\ ~env.do_duration_thresh) =>
            Labels(trace[j].entry) = Labels(Load(file).csv)

\* C18: once the duration stage has committed, the columns of the table are
\* exactly the seven of col_names, in that order, at the entry of every
\* later stage and in the final table.
SchemaFixedAfterDuration ==
    /\ \A j \in 1..Len(trace) :
          trace[j].stage # "DURATION_THRESHOLD" =>
              trace[j].entry.columns = col_names
    /\ Finished => csv.columns = col_names

\* C19: every loaded row that is absent from the final table has a drop
\* record in dropped_row_indices.
DropRecordsComplete ==
    Finished =>
        \A label \in Labels(Load(file).csv) \ Labels(csv) :
            \E k \in 1..Len(dropped_row_indices) :
                dropped_row_indices[k].label = label

\* C20: the RuntimeError a stage raises for an emptied table never leaves
\* do_file, and when the guard of the std stage fires the table is put back
\* as it entered the std stage and the iqr stage receives exactly that
\* table.
GuardContained ==
    /\ exc # "RuntimeError"
    /\ \A j \in 1..Len(trace) :
          (trace[j].stage = "INTERNAL_STD_FILTERING" /\ trace[j].fired) =>
              /\ trace[j].out = trace[j].entry
              /\ IF j < Len(trace)
                 THEN /\ trace[j + 1].stage = "INTERNAL_IQR_FILTERING"
                      /\ trace[j + 1].entry = trace[j].entry
                 ELSE csv = trace[j].entry

\* the std stage removed every row of a table that had some, was reverted,
\* and the iqr stage has run
StdRevertedThenIqr ==
    \E j \in 1..Len(trace) :
        /\ trace[j].stage = "INTERNAL_STD_FILTERING"
        /\ trace[j].fired
        /\ NumRows(trace[j].entry) > 0
        /\ NumRows(trace[j].applied) = 0
        /\ j < Len(trace)
        /\ trace[j + 1].stage = "INTERNAL_IQR_FILTERING"

DurationColumnOptional ==
    LET \* the columns of the file that are among the seven of col_names, in the
        \* order the file has them
        Expected(f) == SelectSeqBy(f.columns, SeqToSet(col_names))
    IN
    (/\ file.exists
     /\ Expected(file) = col_names
     /\ "TRACK_DURATION" \notin SeqToSet(file.columns)) =>
        pc # "raised"

\* C23: a file whose columns, restricted to the seven of col_names, are not
\* exactly col_names in order makes do_file raise: no stage after the
\* duration stage runs on it, the call never reaches its summary block and
\* produces no output_data.
SchemaMismatchRaises ==
    LET \* the columns of the file that are among the seven of col_names, in the
        \* order the file has them
        Expected(f) == SelectSeqBy(f.columns, SeqToSet(col_names))
    IN
    (file.exists /\ Expected(file) # col_names) =>
        /\ \A j \in 1..Len(trace) : trace[j].stage = "DURATION_THRESHOLD"
        /\ pc \notin {"summary", "plots", "returned"}
        /\ output_data = << >>
        /\ output_std = << >>

\* a file that lacks one of the seven columns passed the order check of
\* the load block and was stopped by the assert after the duration stage
MissingColumnStopped ==
    LET \* the columns of the file that are among the seven of col_names, in the
        \* order the file has them
        Expected(f) == SelectSeqBy(f.columns, SeqToSet(col_names))
    IN
    /\ file.exists
    /\ Expected(file) # col_names
    /\ LoadError(file) = "none"
    /\ pc = "raised"
    /\ exc = "AssertionError"

\* C24: with a control, the summary main keeps for any other condition is
\* the summary of a do_file call on that condition's own file with the
\* thresholds derived from the control and the settings of the run: it
\* depends on nothing else, neither on the position of the condition in the
\* loop nor on the files of the other conditions.
OtherSummariesIndependent ==
    LET \* what do_file reads in the else branch when the thresholds are the ones
        \* main derived from the control's row of array and std_array
        EnvFromControl ==
            Env(run.settings,
                array[1][1],
                BaselineSpeed(array[1], std_array[1], run.settings.brownian_multiplier),
                array[1][7],
                run.settings.do_std_filter_flags,
                run.settings.do_iqr_filter_flags,
                BaselineSpeed(array[1], std_array[1], run.settings.brownian_multiplier))
    IN
    \A j \in OtherCalls :
        (has_control /\ calls[j].exc = "none") =>
            \E emptyPct \in EmptyPercentile :
                \E r \in {RunFile(calls[j].file, EnvFromControl, emptyPct)} :
                    /\ array[j] = FloatRow(r.output_data)
                    /\ std_array[j] = FloatRow(r.output_std)

\* two conditions were filtered after the control, the first losing a
\* track to the thresholds the control gave
TwoOthersAfterControl ==
    /\ has_control
    /\ Len(calls) = 3
    /\ \A j \in 1..3 : calls[j].exc = "none"
    /\ calls[2].final_num_rows < NumRows(calls[2].file)
    /\ calls[3].final_num_rows > 0

\* ------------------------------------------------------------------------
\* simple.py
\* ------------------------------------------------------------------------
\* the files to load: the control and the 1 kHz file of the top, then of
\* the bottom
filepaths ==
    << "Top/0khztrackssexport.csv", "Top/1khztracks.csv",
       "Bot/0khztracksexport.csv", "Bot/1khztracks.csv" >>

\* frequencies, in Hz
frequencies == << 0, 1000, 0, 1000 >>

\* a file of simple.py: the rows after the three label rows, each with its
\* index and its MEAN_STRAIGHT_LINE_SPEED
SpeedRows(speeds) ==
    [j \in 1..Len(speeds) |-> [label |-> j + 2, speed |-> speeds[j]]]

Repeat(v, n) == [j \in 1..n |-> v]

\* control files: tracks of speed 1, with or without a fast one
BrownianTables ==
    {SpeedRows(Repeat(1, fill) \o fast) :
        fill \in {1, MaxFill}, fast \in {<< >>, << 4 >>}}

\* files under a field: tracks of speed 2, with or without a still one and
\* a fast one
FieldTables ==
    {SpeedRows(still \o Repeat(2, fill) \o fast) :
        fill \in {0, MaxFill}, still \in {<< >>, << 0 >>},
        fast \in {<< >>, << 4 >>}}

\* file[to_capture].astype(float).to_list()
Speeds(rows) == [j \in 1..Len(rows) |-> rows[j].speed]

\* the loop of the "if not is_brownian" block: what it leaves of the file
Prefilter(rows, is_brownian, brownian_mean, brownian_std) ==
    IF is_brownian THEN rows
    ELSE LET Stays(r) ==
                 ~CellLt(r.speed, PlusTimes(brownian_mean, 2, brownian_std))
         IN  SelectSeq(rows, Stays)

\* the "internal filters" loop, with the mean and std it is given
InternalFilter(rows, is_brownian, m, s) ==
    LET Stays(r) ==
            /\ ~AboveUpper(r.speed, m, s, 2, 1)
            /\ ~(~is_brownian /\ BelowLower(r.speed, m, s, 2, 1))
    IN  SelectSeq(rows, Stays)

\* filter_single_file: the returned tuple, and what the call went through
filter_single_file(rows, is_brownian, brownian_mean, brownian_std) ==
    IF ~is_brownian /\ (brownian_mean = None \/ brownian_std = None)
    THEN [exc |-> "RuntimeError"]
    ELSE LET m == mean(Speeds(rows))
             s == std(Speeds(rows))
             pre == Prefilter(rows, is_brownian, brownian_mean, brownian_std)
             kept == InternalFilter(pre, is_brownian, m, s)
             num_rows_dropped == Len(rows) - Len(kept)
         IN  [exc |-> "none",
              is_brownian |-> is_brownian,
              brownian_mean |-> brownian_mean,
              brownian_std |-> brownian_std,
              loaded |-> rows,
              prefiltered |-> pre,
              file |-> kept,
              rows_kept |-> Len(rows) - num_rows_dropped,
              rows_dropped |-> num_rows_dropped,
              filtered_mean |-> mean(Speeds(kept)),
              filtered_std |-> std(Speeds(kept))]

\* main before its first call
InitSimple ==
    /\ \E top0 \in BrownianTables, top1 \in FieldTables,
          bot0 \in BrownianTables, bot1 \in FieldTables :
          simple = [pc |-> "first",
                    tables |-> << top0, top1, bot0, bot1 >>,
                    i |-> 0,
                    rows_kept |-> Repeat(-1, Len(filepaths)),
                    rows_dropped |-> Repeat(-1, Len(filepaths)),
                    means |-> Repeat(None, Len(filepaths)),
                    standard_deviations |-> Repeat(None, Len(filepaths)),
                    calls |-> << >>,
                    array |-> << >>]
    /\ returning = [pc |-> "idle"]
    /\ relative = [pc |-> "idle"]
    /\ pandas_test = [pc |-> "idle"]
    /\ FileIdle
    /\ MainIdle

\* main's locals after the call for filepaths[j - 1] returned r
Unpacked(j, r) ==
    [simple EXCEPT
        !.rows_kept[j] = r.rows_kept,
        !.rows_dropped[j] = r.rows_dropped,
        !.means[j] = r.filtered_mean,
        !.standard_deviations[j] = r.filtered_std,
        !.calls = Append(@, [index |-> j] @@ r)]

\* files[0], ... = filter_single_file(filepaths[0], True)
FirstFile ==
    /\ simple.pc = "first"
    /\ \E r \in {filter_single_file(simple.tables[1], TRUE, None, None)} :
          simple' = [Unpacked(1, r) EXCEPT !.pc = "loop", !.i = 1]
    /\ UNCHANGED << fvars, mvars, returning, relative, pandas_test >>

\* the body of the for loop for i >= 1
LaterFile ==
    /\ simple.pc = "loop"
    /\ simple.i < Len(filepaths)
    /\ \E r \in {filter_single_file(simple.tables[simple.i + 1], FALSE,
                                    simple.means[1],
                                    simple.standard_deviations[1])} :
          simple' = IF r.exc # "none"
                    THEN [simple EXCEPT !.pc = "raised"]
                    ELSE [Unpacked(simple.i + 1, r) EXCEPT !.i = @ + 1]
    /\ UNCHANGED << fvars, mvars, returning, relative, pandas_test >>

\* the rows of file_summary.csv
WriteSummary ==
    /\ simple.pc = "loop"
    /\ simple.i = Len(filepaths)
    /\ simple' =
          [simple EXCEPT
              !.pc = "done",
              !.array = [j \in 1..Len(filepaths) |->
                            << filepaths[j], frequencies[j], simple.means[j],
                               simple.standard_deviations[j],
                               simple.rows_kept[j] + simple.rows_dropped[j],
                               simple.rows_kept[j] >>]]
    /\ UNCHANGED << fvars, mvars, returning, relative, pandas_test >>

NextSimple ==
    \/ FirstFile
    \/ LaterFile
    \/ WriteSummary

SpecSimple == InitSimple /\ [][NextSimple]_vars

\* C25: for a file that is not Brownian, filter_single_file first removes
\* the rows below brownian_mean + 2*brownian_std, and the rows it then
\* keeps are those within two standard deviations of the average, both
\* calculated from the rows the first step left.
OutlierBoundsAfterPrefilter ==
    LET \* the calls of filter_single_file made so far for files under a field
        FieldCalls ==
            {j \in 1..Len(simple.calls) : ~simple.calls[j].is_brownian}
    IN
    \A j \in FieldCalls :
        LET c == simple.calls[j]
            m == mean(Speeds(c.prefiltered))
            s == std(Speeds(c.prefiltered))
        IN  /\ \A k \in 1..Len(c.loaded) :
                  (\E q \in 1..Len(c.prefiltered) :
                        c.prefiltered[q] = c.loaded[k])
                  <=> ~CellLt(c.loaded[k].speed,
                              PlusTimes(c.brownian_mean, 2, c.brownian_std))
            /\ \A k \in 1..Len(c.prefiltered) :
                  (\E q \in 1..Len(c.file) : c.file[q] = c.prefiltered[k])
                  <=> /\ ~AboveUpper(c.prefiltered[k].speed, m, s, 2, 1)
                      /\ ~BelowLower(c.prefiltered[k].speed, m, s, 2, 1)

\* C26: a file is filtered as Brownian exactly when its frequency is 0, and
\* any other file is filtered against the mean and the std of the control
\* that precedes it in filepaths.
BrownianIffZeroFrequency ==
    \A j \in 1..Len(simple.calls) :
        LET c == simple.calls[j]
            own == CHOOSE k \in 1..c.index :
                      /\ frequencies[k] = 0
                      /\ \A q \in (k + 1)..c.index : frequencies[q] # 0
        IN  /\ c.is_brownian <=> frequencies[c.index] = 0
            /\ frequencies[c.index] # 0 =>
                  /\ c.brownian_mean = simple.means[own]
                  /\ c.brownian_std = simple.standard_deviations[own]

\* ------------------------------------------------------------------------
\* reverser.py: get_relative
\* ------------------------------------------------------------------------
MaxLen == 3

\* the curves: lists of at most MaxLen points, each -1, 0 or 2
Curves == UNION {[1..n -> {-1, 0, 2}] : n \in 0..MaxLen}

\* what the second loop appends for data[i] (position j = i + 1 here),
\* with the source's comment taken literally: "multiplies everything
\* afterwards by 1"
TailEntryUnchanged(data, j) == data[j]

\* out.append(-1.0 * data[i]), for position j = i + 1 here
TailEntry(data, j) == (-1) * data[j]

\* a call get_relative(data, turning_point_index) before its first loop
InitRelative ==
    /\ \E data \in Curves, turning_point_index \in 0..MaxLen :
          /\ turning_point_index <= Len(data)
          /\ relative = [pc |-> "before",
                         data |-> data,
                         turning_point_index |-> turning_point_index,
                         i |-> 0,
                         out |-> << >>]
    /\ returning = [pc |-> "idle"]
    /\ simple = [pc |-> "idle"]
    /\ pandas_test = [pc |-> "idle"]
    /\ FileIdle
    /\ MainIdle

\* for i in range(0, turning_point_index): out.append(data[i])
CopyBefore ==
    /\ relative.pc = "before"
    /\ relative.i < relative.turning_point_index
    /\ relative' = [relative EXCEPT
                       !.out = Append(@, relative.data[relative.i + 1]),
                       !.i = @ + 1]
    /\ UNCHANGED << fvars, mvars, returning, simple, pandas_test >>

\* out.append(0), and the second loop starts at turning_point_index
InsertZero ==
    /\ relative.pc = "before"
    /\ relative.i >= relative.turning_point_index
    /\ relative' = [relative EXCEPT
                       !.out = Append(@, 0),
                       !.i = relative.turning_point_index,
                       !.pc = "after"]
    /\ UNCHANGED << fvars, mvars, returning, simple, pandas_test >>

\* for i in range(turning_point_index, len(data)):
\*     out.append(-1.0 * data[i])
NegateAfter ==
    /\ relative.pc = "after"
    /\ relative.i < Len(relative.data)
    /\ relative' = [relative EXCEPT
                       !.out = Append(@, TailEntry(relative.data,
                                                   relative.i + 1)),
                       !.i = @ + 1]
    /\ UNCHANGED << fvars, mvars, returning, simple, pandas_test >>

\* return out
ReturnRelative ==
    /\ relative.pc = "after"
    /\ relative.i >= Len(relative.data)
    /\ relative' = [relative EXCEPT !.pc = "returned"]
    /\ UNCHANGED << fvars, mvars, returning, simple, pandas_test >>

NextRelative ==
    \/ CopyBefore
    \/ InsertZero
    \/ NegateAfter
    \/ ReturnRelative

SpecRelative == InitRelative /\ [][NextRelative]_vars

KeptLostPartition ==
    Finished =>
        /\ \A k \in 1..Len(dropped_row_indices) :
              dropped_row_indices[k].label \notin Labels(csv)
        /\ \A k, q \in 1..Len(dropped_row_indices) :
              dropped_row_indices[k].label = dropped_row_indices[q].label
                  => k = q
        /\ NumRows(csv) + Len(dropped_row_indices) = NumRows(trace[1].entry)

\* ------------------------------------------------------------------------
\* do_file: the return block (return_label = True)
\* ------------------------------------------------------------------------
\* the frequencies of patterns, in kHz, as they are written in a file
\* name, and the same in Hz as floats print
Kilohertz ==
    << << "0" >>,
       << "0", ".", "8" >>,
       << "1" >>,
       << "5" >>,
       << "1", "0" >>,
       << "2", "5" >>,
       << "5", "0" >>,
       << "7", "5" >>,
       << "1", "0", "0" >>,
       << "1", "5", "0" >>,
       << "2", "0", "0" >>,
       << "3", "0", "0" >> >>

khz == << "k", "h", "z" >>

\* names the patterns find: a frequency, "khz" with or without a space
\* before it, then "tracks" or nothing, after nothing or an "export"
FileNames ==
    {before \o Kilohertz[f] \o space \o khz \o after :
        f \in 1..Len(Kilohertz),
        space \in {<< >>, << " " >>},
        before \in {<< >>, << "e", "x", "p", "o", "r", "t" >>},
        after \in {<< >>, << "t", "r", "a", "c", "k", "s" >>}}
    \ {Kilohertz[f] \o space \o khz : f \in 1..Len(Kilohertz),
                                       space \in {<< >>, << " " >>}}

\* token in name
In(token, file_name) ==
    \E p \in 1..(Len(file_name) - Len(token) + 1) :
        SubSeq(file_name, p, p + Len(token) - 1) = token

\* the if/elif chain of the return block
LabelOf(file_name) ==
    IF In(<< "8", "0", "0", "h", "z" >>, file_name) \/ In(<< "0", ".", "8", "k", "h", "z" >>, file_name) THEN "800.0"
    ELSE IF In(<< "1", "k", "h", "z" >>, file_name) THEN "1000.0"
    ELSE IF In(<< "2", "5", "k", "h", "z" >>, file_name) THEN "25000.0"
    ELSE IF In(<< "5", "k", "h", "z" >>, file_name) THEN "5000.0"
    ELSE IF In(<< "1", "0", "k", "h", "z" >>, file_name) THEN "10000.0"
    ELSE IF In(<< "5", "0", "k", "h", "z" >>, file_name) THEN "50000.0"
    ELSE IF In(<< "1", "0", "0", "k", "h", "z" >>, file_name) THEN "100000.0"
    ELSE IF In(<< "2", "0", "0", "k", "h", "z" >>, file_name) THEN "200000.0"
    ELSE IF In(<< "0", "k", "h", "z" >>, file_name) \/ In(<< "c", "o", "n", "t", "r", "o", "l" >>, file_name) THEN "0.0"
    ELSE ""

\* do_file about to return, with return_label = True
InitReturn ==
    /\ \E file_name \in FileNames :
          returning = [pc |-> "label", name |-> file_name, label |-> ""]
    /\ simple = [pc |-> "idle"]
    /\ relative = [pc |-> "idle"]
    /\ pandas_test = [pc |-> "idle"]
    /\ FileIdle
    /\ MainIdle

\* label = ...; return (output_data, output_std, label)
ReturnLabel ==
    /\ returning.pc = "label"
    /\ returning' = [returning EXCEPT !.pc = "returned",
                                      !.label = LabelOf(returning.name)]
    /\ UNCHANGED << fvars, mvars, simple, relative, pandas_test >>

NextReturn == ReturnLabel

SpecReturn == InitReturn /\ [][NextReturn]_vars

\* C29: the label do_file returns is the frequency, in Hz, of the file: the
\* one of the twelve frequencies of patterns that its name carries.
LabelIsFrequency ==
    LET \* the frequency of patterns written in the name: the longest run of
        \* digits and dots before "khz"
        FrequencyOf(file_name) ==
            CHOOSE f \in 1..Len(Kilohertz) :
                \E p \in 1..Len(file_name), space \in {<< >>, << " " >>} :
                    /\ p + Len(Kilohertz[f] \o space \o khz) - 1 <= Len(file_name)
                    /\ SubSeq(file_name, p, p + Len(Kilohertz[f] \o space \o khz) - 1)
                          = Kilohertz[f] \o space \o khz
                    /\ (p = 1 \/ file_name[p - 1] \notin
                                    {"0", "1", "2", "3", "5", "7", "8", "."})
        Hertz ==
            << "0.0", "800.0", "1000.0", "5000.0", "10000.0", "25000.0", "50000.0", "75000.0", "100000.0", "150000.0", "200000.0", "300000.0" >>
    IN
    returning.pc = "returned" =>
        returning.label = Hertz[FrequencyOf(returning.name)]

\* ------------------------------------------------------------------------
\* pandas_test_2.py
\* ------------------------------------------------------------------------
\* the module's settings
p2_do_std_filter_flags == << TRUE, FALSE, FALSE, FALSE, TRUE, FALSE, TRUE >>
p2_do_iqr_filter_flags == << TRUE, FALSE, FALSE, FALSE, TRUE, FALSE, TRUE >>
p2_do_speed_thresh == FALSE
p2_do_displacement_thresh == TRUE
p2_do_linearity_thresh == TRUE
p2_do_quality_thresh == FALSE
p2_quality_threshold == Whole(4)

\* two tracks whose columns differ from one another
P2Pool ==
    << Row(65, 2, 2, 2, 2, 3, 4, 1),
       Row(65, 1, 2, 2, 2, 5, 2, 3) >>

\* the files a run may find: the three rows and at most MaxVar of these
\* tracks, a table cut short before its third row, or a name that cannot
\* be read
P2Files ==
    LET P2Header ==
            [j \in 1..3 |->
                [label |-> j - 1, v |-> Row(0, 0, 0, 0, 0, 0, 0, 0)]]
    IN
    {[exists |-> TRUE, columns |-> StandardLayout,
      rows |-> P2Header \o
               [j \in 1..Len(ch) |-> [label |-> j + 2, v |-> P2Pool[ch[j]]]]] :
        ch \in UNION {{s \in [1..k -> 1..Len(P2Pool)] :
                          \A j \in 1..(k - 1) : s[j] <= s[j + 1]} :
                      k \in 0..MaxVar}}
    \cup {[exists |-> TRUE, columns |-> StandardLayout,
           rows |-> SubSeq(P2Header, 1, 2)]}
    \cup {[exists |-> FALSE, columns |-> << >>, rows |-> << >>]}

\* the columns not in col_names dropped
P2Load(f) ==
    DropColumns([columns |-> f.columns, rows |-> f.rows],
                SeqToSet(f.columns) \ SeqToSet(col_names))

\* csv.drop(axis=0, inplace=True, labels=[0, 1, 2])
P2DropRows(df) ==
    [df EXCEPT !.rows = SelectSeq(df.rows, LAMBDA r : r.label \notin {0, 1, 2})]

\* whether the labels 0, 1, 2 are all in the table
P2HasRows(df) ==
    \A l \in {0, 1, 2} : \E j \in 1..NumRows(df) : df.rows[j].label = l

\* the thresholding loop
P2Thresholds(df, displacement_threshold, speed_threshold, linearity_threshold, quality_threshold) ==
    IF ~(p2_do_speed_thresh \/ p2_do_displacement_thresh
            \/ p2_do_linearity_thresh)
    THEN df
    ELSE [df EXCEPT !.rows = SelectSeq(df.rows, LAMBDA r :
            /\ ~(/\ p2_do_speed_thresh
                 /\ CellLt(r.v["MEAN_STRAIGHT_LINE_SPEED"], speed_threshold))
            /\ ~(/\ p2_do_displacement_thresh
                 /\ CellLt(r.v["TRACK_DISPLACEMENT"], displacement_threshold))
            /\ ~(/\ p2_do_linearity_thresh
                 /\ CellLt(r.v["LINEARITY_OF_FORWARD_PROGRESSION"],
                           linearity_threshold))
            /\ ~(/\ p2_do_quality_thresh
                 /\ CellLt(r.v["TRACK_MEAN_QUALITY"], quality_threshold)))]

\* the std filter: the rows with no value below mean - 2*std of its
\* column, mean and std being 0.0 for a column that is not flagged
P2Std(df, std_drop_flags) ==
    IF IsNone(std_drop_flags) \/ Len(std_drop_flags) # Len(df.columns)
    THEN df
    ELSE [df EXCEPT !.rows = SelectSeq(df.rows, LAMBDA r :
            \A j \in 1..Len(df.columns) :
                ~BelowLower(r.v[df.columns[j]],
                            IF std_drop_flags[j]
                            THEN mean(Column(df, df.columns[j])) ELSE Zero,
                            IF std_drop_flags[j]
                            THEN std(Column(df, df.columns[j])) ELSE Zero,
                            2, 1))]

\* whether the iqr filter runs
P2IqrRuns(df, iqr_drop_flags) ==
    ~IsNone(iqr_drop_flags) /\ Len(iqr_drop_flags) = Len(df.columns)

\* the iqr filter: q3 - q1 for the flagged columns, and the means by
\* std_drop_flags[i], i being what the loop before left: the last index
P2Iqr(df, std_drop_flags, iqr_drop_flags) ==
    IF ~P2IqrRuns(df, iqr_drop_flags)
    THEN df
    ELSE [df EXCEPT !.rows = SelectSeq(df.rows, LAMBDA r :
            \A j \in 1..Len(df.columns) :
                ~BelowLower(r.v[df.columns[j]],
                            IF std_drop_flags[Len(df.columns)]
                            THEN mean(Column(df, df.columns[j])) ELSE Zero,
                            IF iqr_drop_flags[j]
                            THEN Minus(percentile(Column(df, df.columns[j]), 75),
                                       percentile(Column(df, df.columns[j]), 25))
                            ELSE Zero,
                            3, 2))]

\* output_data and output_std of a table
P2Summary(df, initial_rows) ==
    [exc |-> "none",
     csv |-> df,
     output_data |->
        [j \in 1..Len(col_names) |->
            IF NumRows(df) = 0 THEN None
            ELSE mean(Column(df, col_names[j]))]
        \o << Whole(initial_rows), Whole(NumRows(df)) >>,
     output_std |->
        [j \in 1..Len(col_names) |-> std(Column(df, col_names[j]))]]

\* what a call that raised leaves
P2Raised(e) ==
    [exc |-> e, csv |-> NoFrame.csv, output_data |-> << >>,
     output_std |-> << >>]

\* the filters after the thresholding loop
P2Filtered(df, initial_rows, std_drop_flags, iqr_drop_flags, emptyPct) ==
    IF /\ P2IqrRuns(df, iqr_drop_flags)
       /\ NumRows(P2Std(df, std_drop_flags)) = 0
       /\ emptyPct = "IndexError"
    THEN P2Raised("IndexError")
    ELSE IF /\ P2IqrRuns(df, iqr_drop_flags)
            /\ NumRows(P2Std(df, std_drop_flags)) = 0
         THEN P2Summary(P2Std(df, std_drop_flags), initial_rows)
         ELSE P2Summary(P2Iqr(P2Std(df, std_drop_flags), std_drop_flags,
                              iqr_drop_flags),
                        initial_rows)

\* do_file of pandas_test_2
p2_do_file(f, displacement_threshold, speed_threshold, linearity_threshold, std_drop_flags, iqr_drop_flags, quality_threshold, emptyPct) ==
    IF ~f.exists
    THEN [exc |-> "none", csv |-> NoFrame.csv,
          output_data |-> [j \in 1..(Len(col_names) + 2) |-> None],
          output_std |-> [j \in 1..Len(col_names) |-> None]]
    ELSE IF P2Load(f).columns # col_names
    THEN P2Raised("AssertionError")
    ELSE IF ~P2HasRows(P2Load(f))
    THEN P2Raised("KeyError")
    ELSE P2Filtered(P2Thresholds(P2DropRows(P2Load(f)),
                                 displacement_threshold, speed_threshold,
                                 linearity_threshold, quality_threshold),
                    NumRows(P2DropRows(P2Load(f))), std_drop_flags,
                    iqr_drop_flags, emptyPct)

\* the main block before name_fixer.fix_names(patterns)
InitPandas ==
    /\ \E found \in {x \in SUBSET SeqToSet(Patterns) : Cardinality(x) <= MaxFound} :
          pandas_test = [pc |-> "start",
                         names |-> NamesOf(found),
                         has_control |-> Patterns[1] \in found,
                         i |-> 0,
                         array |-> << >>,
                         std_array |-> << >>,
                         brownian_speed_threshold |-> Zero,
                         brownian_displacement_threshold |-> Zero,
                         brownian_linearity_threshold |-> Zero,
                         calls |-> << >>]
    /\ returning = [pc |-> "idle"]
    /\ simple = [pc |-> "idle"]
    /\ relative = [pc |-> "idle"]
    /\ FileIdle
    /\ MainIdle

\* raise Exception('No files could be found.'), or array and std_array
\* = zeros(...)
PandasFindFiles ==
    /\ pandas_test.pc = "start"
    /\ pandas_test' =
          IF Len(pandas_test.names) = 0
          THEN [pandas_test EXCEPT !.pc = "aborted"]
          ELSE [pandas_test EXCEPT
                   !.pc = "loop",
                   !.array = [j \in 1..Len(pandas_test.names) |->
                                 [k \in 1..(Len(col_names) + 2) |-> Zero]],
                   !.std_array = [j \in 1..Len(pandas_test.names) |->
                                     [k \in 1..Len(col_names) |-> Zero]]]
    /\ UNCHANGED << fvars, mvars, returning, simple, relative >>

\* array[i], std_array[i] = the pair r a do_file call returned
P2Stored(control, f, r) ==
    [pandas_test EXCEPT
        !.array[pandas_test.i + 1] = FloatRow(r.output_data),
        !.std_array[pandas_test.i + 1] = FloatRow(r.output_std),
        !.i = @ + 1,
        !.calls = Append(@, [control |-> control, file |-> f, csv |-> r.csv])]

\* the i == 0 and has_control branch
PandasControl ==
    /\ pandas_test.pc = "loop"
    /\ pandas_test.i < Len(pandas_test.names)
    /\ pandas_test.i = 0 /\ pandas_test.has_control
    /\ \E f \in P2Files, emptyPct \in EmptyPercentile :
          \E r \in {p2_do_file(f, Zero, Zero, Zero, NoFlags, NoFlags,
                               p2_quality_threshold, emptyPct)} :
             pandas_test' =
                IF r.exc # "none"
                THEN [pandas_test EXCEPT !.pc = "aborted"]
                ELSE [P2Stored(TRUE, f, r) EXCEPT
                         !.brownian_speed_threshold =
                             FloatRow(r.output_data)[5],
                         !.brownian_displacement_threshold =
                             FloatRow(r.output_data)[1],
                         !.brownian_linearity_threshold =
                             FloatRow(r.output_data)[6]]
    /\ UNCHANGED << fvars, mvars, returning, simple, relative >>

\* the else branch
PandasOther ==
    /\ pandas_test.pc = "loop"
    /\ pandas_test.i < Len(pandas_test.names)
    /\ ~(pandas_test.i = 0 /\ pandas_test.has_control)
    /\ \E f \in P2Files, emptyPct \in EmptyPercentile :
          \E r \in {p2_do_file(f, pandas_test.brownian_displacement_threshold,
                               pandas_test.brownian_speed_threshold,
                               pandas_test.brownian_linearity_threshold,
                               p2_do_std_filter_flags, p2_do_iqr_filter_flags,
                               Num(15, 0, 0, 10), emptyPct)} :
             pandas_test' =
                IF r.exc # "none"
                THEN [pandas_test EXCEPT !.pc = "aborted"]
                ELSE P2Stored(FALSE, f, r)
    /\ UNCHANGED << fvars, mvars, returning, simple, relative >>

\* the summaries are written out
PandasFinish ==
    /\ pandas_test.pc = "loop"
    /\ pandas_test.i = Len(pandas_test.names)
    /\ pandas_test' = [pandas_test EXCEPT !.pc = "done"]
    /\ UNCHANGED << fvars, mvars, returning, simple, relative >>

NextPandas ==
    \/ PandasFindFiles
    \/ PandasControl
    \/ PandasOther
    \/ PandasFinish

SpecPandas == InitPandas /\ [][NextPandas]_vars

\* C30: the thresholds the main block takes from the control's summary are
\* the control's means of the columns they filter: MEAN_STRAIGHT_LINE_SPEED
\* for the speed threshold, TRACK_DISPLACEMENT for the displacement
\* threshold, LINEARITY_OF_FORWARD_PROGRESSION for the linearity threshold.
ThresholdsMatchColumns ==
    LET \* the mean of a column over the table the control's call ended with, as
        \* array holds it
        ControlMean(c) ==
            IF NumRows(pandas_test.calls[1].csv) = 0 THEN NaN
            ELSE mean(Column(pandas_test.calls[1].csv, c))
    IN
    (Len(pandas_test.calls) >= 1 /\ pandas_test.calls[1].control) =>
        /\ pandas_test.brownian_speed_threshold =
              ControlMean("MEAN_STRAIGHT_LINE_SPEED")
        /\ pandas_test.brownian_displacement_threshold =
              ControlMean("TRACK_DISPLACEMENT")
        /\ pandas_test.brownian_linearity_threshold =
              ControlMean("LINEARITY_OF_FORWARD_PROGRESSION")

====
